---- MODULE Spec2Model ----
(***************************************************************************)
(* A model of pyPheWAS/pyPhewasCorev2.py: the feature-matrix builder       *)
(* (get_icd_codes, generate_feature_matrix), the regression loop           *)
(* (run_phewas, calculate_odds_ratio, get_phewas_info), the                *)
(* multiple-comparison thresholds (get_bon_thresh, get_fdr_thresh,         *)
(* get_bhy_thresh) and the run from the event file to the result table.    *)
(*                                                                         *)
(* Python indices are kept 0-based (count, index, phecode_ix, the rows and *)
(* columns of the matrices); TLA+ sequences are 1-based, so row r of a     *)
(* data frame held as a sequence s is s[r + 1].                            *)
(* Phenotype codes are strings in the source and are compared as strings:  *)
(* a code is modelled as the sequence of its digits, compared              *)
(* lexicographically.                                                      *)
(***************************************************************************)
EXTENDS Integers, Sequences, FiniteSets

VARIABLES
    pc,              \* position of the running function
    \* ---- get_icd_codes / generate_feature_matrix
    genotypes_df,    \* the roster data frame (sequence of rows)
    phenotype,       \* the event data frame (sequence of rows)
    reg_type,        \* 0 binary, 1 count, 2 duration
    pheno_cov,       \* the covariate phenotype code, or None
    feature_matrix,  \* [layer -> [row -> [column -> value]]]
    exclude,         \* ids found in the event log but not in the roster
    last_id,         \* last roster id seen in the event log
    count,           \* row cursor into the id-sorted roster
    ev,              \* number of events the for loop has consumed
    curr_id,         \* id of the event being processed
    out,             \* what was printed (the exclusion messages)
    written,         \* the event writes done so far: [ev, row, col]
    \* ---- run_phewas / calculate_odds_ratio
    fm,              \* the feature matrix passed to run_phewas
    genotypes,       \* the roster frame and its scratch columns y, MaxAgeAtICD, phe
    covariates,      \* the covariate string, as the sequence of its pieces
    response,        \* the response column the caller names, "" for genotype
    index,           \* the phenotype column of the for loop
    inds,            \* the columns found separated before the loop
    regressions,     \* the rows recorded so far, one per visited column
    calls,           \* the calls of calculate_odds_ratio: [index, lr, outcome]
    table,           \* the frame run_phewas returns
    \* ---- the threshold calculators
    p_values,        \* the p-values passed in, NaN among them
    alpha,           \* the significance level, in thousandths
    thresh,          \* what the calculator returned, or that it raised
    \* ---- the run from the event file to the result table
    code_type,       \* 'ICD' or 'CPT'
    icd_types,       \* the ICD_TYPE values found in the event file
    header           \* the column codes generate_feature_matrix returns

fmvars == <<genotypes_df, phenotype, reg_type, pheno_cov, feature_matrix,
            exclude, last_id, count, ev, curr_id, out, written>>

phvars == <<fm, genotypes, covariates, response, index, inds, regressions, calls,
            table>>

thvars == <<p_values, alpha, thresh>>

plvars == <<code_type, icd_types, header>>

vars == <<pc, fmvars, phvars, thvars, plvars>>

-----------------------------------------------------------------------------
(* Bounds of the model *)

MaxId == 3        \* ids are 1..MaxId
MaxEvents == 2    \* rows of the event log

None == <<>>      \* Python's None where a phenotype code is expected
NoId == 0         \* the initial last_id (''), equal to no roster id
NoValue == -1     \* a column the data frame does not have

-----------------------------------------------------------------------------
(* Generic helpers *)

Max(S) == CHOOSE x \in S : \A y \in S : y <= x
Min(S) == CHOOSE x \in S : \A y \in S : x <= y

SeqsUpTo(S, n) == UNION {[1..m -> S] : m \in 0..n}

\* string comparison of two codes (sequences of digits)
RECURSIVE LexLess(_, _)
LexLess(a, b) ==
    IF a = <<>> THEN b # <<>>
    ELSE IF b = <<>> THEN FALSE
    ELSE IF Head(a) = Head(b) THEN LexLess(Tail(a), Tail(b))
    ELSE Head(a) < Head(b)

-----------------------------------------------------------------------------
(* The code maps loaded at import time *)

\* rows of the ICD-9 map resource, in file order: several ICD codes roll up
\* to one PheCode, and the file is not ordered by PheCode
icd9_codes ==
    << [ICD_CODE |-> <<2, 5, 0>>, PheCode |-> <<2, 5, 0>>],
       [ICD_CODE |-> <<0, 0, 8>>, PheCode |-> <<0, 0, 8>>],
       [ICD_CODE |-> <<2, 5, 0, 1>>, PheCode |-> <<2, 5, 0>>] >>

\* DataFrame.drop_duplicates(subset=col): keep the first row of each value
RECURSIVE DropDuplicates(_, _)
DropDuplicates(rows, seen) ==
    IF rows = <<>> THEN <<>>
    ELSE IF Head(rows).PheCode \in seen THEN DropDuplicates(Tail(rows), seen)
    ELSE <<[PheCode |-> Head(rows).PheCode]>>
         \o DropDuplicates(Tail(rows), seen \cup {Head(rows).PheCode})

\* insert a row into a sequence sorted by PheCode, after its equals
RECURSIVE InsertByCode(_, _)
InsertByCode(r, s) ==
    IF s = <<>> THEN <<r>>
    ELSE IF LexLess(r.PheCode, Head(s).PheCode) THEN <<r>> \o s
    ELSE <<Head(s)>> \o InsertByCode(r, Tail(s))

\* DataFrame.sort_values(by='PheCode') followed by reset_index(drop=True)
RECURSIVE SortByCode(_)
SortByCode(rows) ==
    IF rows = <<>> THEN <<>>
    ELSE InsertByCode(rows[Len(rows)], SortByCode(SubSeq(rows, 1, Len(rows) - 1)))

phewas_codes == SortByCode(DropDuplicates(icd9_codes, {}))

\* rows of the CPT map resource; its code column, prowas_code, is held in the
\* field PheCode (the source names the column through phecode_col)
cpt_codes ==
    << [CPT_CODE |-> <<9, 9, 2>>, PheCode |-> <<1, 3>>],
       [CPT_CODE |-> <<0, 1, 6>>, PheCode |-> <<0, 4>>],
       [CPT_CODE |-> <<9, 9, 3>>, PheCode |-> <<1, 3>>] >>

prowas_codes == SortByCode(DropDuplicates(cpt_codes, {}))

-----------------------------------------------------------------------------
(* get_icd_codes: the columns derived per (id, PheCode) group *)

GroupAges(rows, id, code) ==
    {rows[i].AgeAtICD : i \in {j \in 1..Len(rows) :
                                 rows[j].id = id /\ rows[j].PheCode = code}}

\* groupby(['id','PheCode'])['AgeAtICD'].transform('max') - ...('min') + 1
Duration(rows, r) ==
    Max(GroupAges(rows, r.id, r.PheCode)) - Min(GroupAges(rows, r.id, r.PheCode)) + 1

\* faulty variant: the row's own age instead of its group's maximum
MaxAgeAtICD_OwnAge(rows, r) == r.AgeAtICD

\* groupby(['id','PheCode'])['AgeAtICD'].transform('max')
MaxAgeAtICD(rows, r) == Max(GroupAges(rows, r.id, r.PheCode))

WithGroupColumns(rows, rt) ==
    [i \in 1..Len(rows) |->
        [id |-> rows[i].id, PheCode |-> rows[i].PheCode, AgeAtICD |-> rows[i].AgeAtICD,
         duration |-> IF rt = 2 THEN Duration(rows, rows[i]) ELSE NoValue,
         MaxAgeAtICD |-> MaxAgeAtICD(rows, rows[i])]]

-----------------------------------------------------------------------------
(* generate_feature_matrix *)

\* insert a row into a sequence sorted by id, after its equals
RECURSIVE InsertById(_, _)
InsertById(r, s) ==
    IF s = <<>> THEN <<r>>
    ELSE IF r.id < Head(s).id THEN <<r>> \o s
    ELSE <<Head(s)>> \o InsertById(r, Tail(s))

\* faulty variant: the frame is left in the order it came in
SortById_Unsorted(rows) == rows

\* DataFrame.sort_values(by='id') followed by reset_index(drop=True)
RECURSIVE SortById(_)
SortById(rows) ==
    IF rows = <<>> THEN <<>>
    ELSE InsertById(rows[Len(rows)], SortById(SubSeq(rows, 1, Len(rows) - 1)))

\* list(empty_phewas_df.index) after set_index('PheCode') and sort_index
Header == [j \in 1..Len(SortByCode(phewas_codes)) |-> SortByCode(phewas_codes)[j].PheCode]

NumCodes == Len(Header)

\* np_index: the position of a code in the sorted index
np_index(code) == (CHOOSE j \in 1..NumCodes : Header[j] = code) - 1

\* genotypes = genotypes_df.set_index('id').to_dict('index')
genotypes_dict(df) == {df[i].id : i \in 1..Len(df)}
MaxAgeAtVisitOf(df, id) == df[CHOOSE i \in 1..Len(df) : df[i].id = id].MaxAgeAtVisit

Zeros(n) == [l \in 0..2 |-> [r \in 0..(n - 1) |-> [c \in 0..(NumCodes - 1) |-> 0]]]

\* feature_matrix[layer][row] = value (a whole row)
SetRow(m, layer, row, value) ==
    [m EXCEPT ![layer][row] = [c \in 0..(NumCodes - 1) |-> value]]

\* faulty variant: duration mode accumulates the duration like count mode does
WriteEventInto_DurationAdded(m, row, event, rt, cov) ==
    LET phecode_ix == np_index(event.PheCode)
        m1 == [m EXCEPT ![1][row][phecode_ix] = event.MaxAgeAtICD]
        m2 == IF cov # None /\ event.PheCode = cov THEN SetRow(m1, 2, row, 1) ELSE m1
    IN  IF rt = 0 THEN [m2 EXCEPT ![0][row][phecode_ix] = 1]
        ELSE IF rt = 1 THEN [m2 EXCEPT ![0][row][phecode_ix] = @ + 1]
        ELSE [m2 EXCEPT ![0][row][phecode_ix] = @ + event.duration]

\* lines 269-285: the writes of one event into row `row`
WriteEventInto(m, row, event, rt, cov) ==
    LET phecode_ix == np_index(event.PheCode)
        m1 == [m EXCEPT ![1][row][phecode_ix] = event.MaxAgeAtICD]
        m2 == IF cov # None /\ event.PheCode = cov THEN SetRow(m1, 2, row, 1) ELSE m1
    IN  IF rt = 0 THEN [m2 EXCEPT ![0][row][phecode_ix] = 1]
        ELSE IF rt = 1 THEN [m2 EXCEPT ![0][row][phecode_ix] = @ + 1]
        ELSE [m2 EXCEPT ![0][row][phecode_ix] = event.duration]

\* the inputs: rosters with unique ids, in an order that is not the id order
VisitAge(id) == 10 + id
RosterRow(id) == [id |-> id, genotype |-> id % 2, MaxAgeAtVisit |-> VisitAge(id)]

RECURSIVE Descending(_)
Descending(S) ==
    IF S = {} THEN <<>> ELSE <<RosterRow(Max(S))>> \o Descending(S \ {Max(S)})

IDs == 1..MaxId
Ages == {1, 3}
Codes == {phewas_codes[j].PheCode : j \in 1..Len(phewas_codes)}
EventRows == [id : IDs, PheCode : Codes, AgeAtICD : Ages]

\* generate_feature_matrix has not been called
IdleFM ==
    /\ genotypes_df = <<>>
    /\ phenotype = <<>>
    /\ reg_type = 0
    /\ pheno_cov = None
    /\ feature_matrix = <<>>
    /\ exclude = <<>>
    /\ last_id = NoId
    /\ count = -1
    /\ ev = 0
    /\ curr_id = NoId
    /\ out = <<>>
    /\ written = <<>>

\* run_phewas has not been called
IdlePhewas ==
    /\ fm = <<>>
    /\ genotypes = <<>>
    /\ covariates = <<>>
    /\ response = ""
    /\ index = 0
    /\ inds = {}
    /\ regressions = <<>>
    /\ calls = <<>>
    /\ table = <<>>

\* no event file has been read and no header built
IdlePipeline ==
    /\ code_type = "ICD"
    /\ icd_types = {9}
    /\ header = <<>>

\* no threshold calculator has been called
IdleThresh ==
    /\ p_values = <<>>
    /\ alpha = 0
    /\ thresh = <<>>

InitFM ==
    /\ pc = "get_icd_codes"
    /\ genotypes_df \in {Descending(S) : S \in SUBSET IDs}
    /\ phenotype \in SeqsUpTo(EventRows, MaxEvents)
    /\ reg_type \in 0..2
    /\ pheno_cov \in {None, Header[1]}
    /\ feature_matrix = <<>>
    /\ exclude = <<>>
    /\ last_id = NoId
    /\ count = -1
    /\ ev = 0
    /\ curr_id = NoId
    /\ out = <<>>
    /\ written = <<>>
    /\ IdlePhewas
    /\ IdleThresh
    /\ IdlePipeline

\* get_icd_codes, lines 140-149 (after the merge with the code map)
GetIcdCodes ==
    /\ pc = "get_icd_codes"
    /\ phenotype' = WithGroupColumns(phenotype, reg_type)
    /\ pc' = "generate_feature_matrix"
    /\ UNCHANGED <<genotypes_df, reg_type, pheno_cov, feature_matrix, exclude,
                   last_id, count, ev, curr_id, out, written>>
    /\ UNCHANGED <<phvars, thvars, plvars>>

\* generate_feature_matrix, lines 224-250: sort both frames, allocate, reset
GfmStart ==
    /\ pc = "generate_feature_matrix"
    /\ phenotype' = SortById(phenotype)
    /\ genotypes_df' = SortById(genotypes_df)
    /\ feature_matrix' = Zeros(Len(genotypes_df))
    /\ exclude' = <<>>
    /\ last_id' = NoId
    /\ count' = -1
    /\ ev' = 0
    /\ pc' = "for"
    /\ UNCHANGED <<reg_type, pheno_cov, curr_id, out, written>>
    /\ UNCHANGED <<phvars, thvars, plvars>>

\* faulty variant: the exclude list is never consulted
InExclude_Never(id) == FALSE

\* line 255: curr_id in exclude
InExclude(id) == \E i \in 1..Len(exclude) : exclude[i] = id

\* lines 253-258: an event of an id that is not in the roster
EventUnknown ==
    /\ pc = "for"
    /\ ev < Len(phenotype)
    /\ LET event == phenotype[ev + 1] IN
        /\ event.id \notin genotypes_dict(genotypes_df)
        /\ curr_id' = event.id
        /\ IF ~InExclude(event.id)
              THEN /\ out' = Append(out, event.id)
                   /\ exclude' = Append(exclude, event.id)
              ELSE UNCHANGED <<out, exclude>>
    /\ ev' = ev + 1
    /\ UNCHANGED <<pc, genotypes_df, phenotype, reg_type, pheno_cov, feature_matrix,
                   last_id, count, written>>
    /\ UNCHANGED <<phvars, thvars, plvars>>

\* lines 253-261: the first event of a roster subject: count += 1, enter the while
EventNewSubject ==
    /\ pc = "for"
    /\ ev < Len(phenotype)
    /\ LET event == phenotype[ev + 1] IN
        /\ event.id \in genotypes_dict(genotypes_df)
        /\ last_id # event.id
        /\ curr_id' = event.id
    /\ count' = count + 1
    /\ pc' = "while"
    /\ UNCHANGED <<genotypes_df, phenotype, reg_type, pheno_cov, feature_matrix,
                   exclude, last_id, ev, out, written>>
    /\ UNCHANGED <<phvars, thvars, plvars>>

\* genotypes_df.loc[count,'id'] is defined for 0..N-1 and raises KeyError
\* outside it; C7_CursorInRoster shows the while loop never reads outside
InRoster(c) == 0 <= c /\ c < Len(genotypes_df)

\* lines 262-265: one turn of the while loop over a subject without events
WhileSkip ==
    /\ pc = "while"
    /\ InRoster(count)
    /\ curr_id # genotypes_df[count + 1].id
    /\ LET empty_id == genotypes_df[count + 1].id IN
        feature_matrix' = SetRow(feature_matrix, 1, count,
                                 MaxAgeAtVisitOf(genotypes_df, empty_id))
    /\ count' = count + 1
    /\ UNCHANGED <<pc, genotypes_df, phenotype, reg_type, pheno_cov, exclude,
                   last_id, ev, curr_id, out, written>>
    /\ UNCHANGED <<phvars, thvars, plvars>>

\* lines 262, 266-285: the while loop ends at the event's subject; its row of
\* layer 1 is filled and the event is written
WhileExit ==
    /\ pc = "while"
    /\ InRoster(count)
    /\ curr_id = genotypes_df[count + 1].id
    /\ last_id' = curr_id
    /\ LET event == phenotype[ev + 1]
           filled == SetRow(feature_matrix, 1, count,
                            MaxAgeAtVisitOf(genotypes_df, curr_id))
       IN /\ feature_matrix' = WriteEventInto(filled, count, event, reg_type, pheno_cov)
          /\ written' = Append(written, [ev |-> ev + 1, row |-> count,
                                         col |-> np_index(event.PheCode)])
    /\ ev' = ev + 1
    /\ pc' = "for"
    /\ UNCHANGED <<genotypes_df, phenotype, reg_type, pheno_cov, exclude, count,
                   curr_id, out>>
    /\ UNCHANGED <<phvars, thvars, plvars>>

\* lines 253-260, 269-285: a further event of the subject at the cursor
EventSameSubject ==
    /\ pc = "for"
    /\ ev < Len(phenotype)
    /\ LET event == phenotype[ev + 1] IN
        /\ event.id \in genotypes_dict(genotypes_df)
        /\ last_id = event.id
        /\ curr_id' = event.id
        /\ feature_matrix' = WriteEventInto(feature_matrix, count, event, reg_type, pheno_cov)
        /\ written' = Append(written, [ev |-> ev + 1, row |-> count,
                                       col |-> np_index(event.PheCode)])
    /\ ev' = ev + 1
    /\ UNCHANGED <<pc, genotypes_df, phenotype, reg_type, pheno_cov, exclude,
                   last_id, count, out>>
    /\ UNCHANGED <<phvars, thvars, plvars>>

\* line 287: the event log is exhausted
GfmReturn ==
    /\ pc = "for"
    /\ ev = Len(phenotype)
    /\ pc' = "returned"
    /\ UNCHANGED <<fmvars, phvars, thvars, plvars>>

NextFM ==
    \/ GetIcdCodes
    \/ GfmStart
    \/ EventUnknown
    \/ EventNewSubject
    \/ WhileSkip
    \/ WhileExit
    \/ EventSameSubject
    \/ GfmReturn

SpecFM == InitFM /\ [][NextFM]_vars

-----------------------------------------------------------------------------
(* What the claims speak of, computed from the inputs alone *)

NumSubjects == Len(genotypes_df)
Rows == 0..(NumSubjects - 1)
Cols == 0..(NumCodes - 1)
IdOfRow(r) == genotypes_df[r + 1].id
EventsOf(id) == {i \in 1..Len(phenotype) : phenotype[i].id = id}
PairEvents(id, code) == {i \in EventsOf(id) : phenotype[i].PheCode = code}
PairAges(id, code) == {phenotype[i].AgeAtICD : i \in PairEvents(id, code)}
RosterIds == {genotypes_df[i].id : i \in 1..Len(genotypes_df)}
Returned == pc = "returned"

\* C1: after generate_feature_matrix returns, every roster subject without an
\* event has its layer-1 row equal to its MaxAgeAtVisit and its layer-0 and
\* layer-2 rows equal to 0, wherever the subject stands in the roster.
C1_EventlessRowsFilled ==
    Returned =>
        \A r \in Rows : EventsOf(IdOfRow(r)) = {} =>
            \A c \in Cols :
                /\ feature_matrix[1][r][c] = genotypes_df[r + 1].MaxAgeAtVisit
                /\ feature_matrix[0][r][c] = 0
                /\ feature_matrix[2][r][c] = 0

\* C6: after generate_feature_matrix, layer 0 at (subject, phenotype) is 1/0 for
\* "has an event" in binary mode, the number of event rows in count mode, and
\* max age - min age + 1 (0 without an event) in duration mode.
C6_Layer0PerMode ==
    Returned =>
        \A r \in Rows : \A c \in Cols :
            LET n == Cardinality(PairEvents(IdOfRow(r), Header[c + 1]))
                ages == PairAges(IdOfRow(r), Header[c + 1])
            IN  feature_matrix[0][r][c] =
                    CASE reg_type = 0 -> IF n > 0 THEN 1 ELSE 0
                      [] reg_type = 1 -> n
                      [] reg_type = 2 -> IF n > 0 THEN Max(ages) - Min(ages) + 1 ELSE 0

\* a pair with two event rows at ages 1 and 3, built in duration mode
C6_Witness ==
    /\ Returned
    /\ reg_type = 2
    /\ \E r \in Rows : \E c \in Cols :
          /\ Cardinality(PairEvents(IdOfRow(r), Header[c + 1])) >= 2
          /\ PairAges(IdOfRow(r), Header[c + 1]) = {1, 3}
          /\ feature_matrix[0][r][c] = 3

\* C7: whenever an event of a roster subject is written, 0 <= count < N, row
\* count of the id-sorted roster holds the event's id and the column is the
\* position of the event's code in the sorted header; the while loop over
\* the subjects without events never leaves the roster.
C7_CursorInRoster ==
    /\ pc = "while" => InRoster(count)
    /\ \A j \in 1..(NumCodes - 1) : LexLess(Header[j], Header[j + 1])
    /\ \A k \in 1..Len(written) :
          LET w == written[k] IN
          /\ 0 <= w.row /\ w.row < NumSubjects
          /\ genotypes_df[w.row + 1].id = phenotype[w.ev].id
          /\ \A i \in 1..Len(genotypes_df) : \A j \in 1..Len(genotypes_df) :
                i < j => genotypes_df[i].id < genotypes_df[j].id
          /\ w.col \in Cols
          /\ Header[w.col + 1] = phenotype[w.ev].PheCode

\* a write that came after a subject without events was skipped and after an
\* event of an unknown id was excluded
C7_Witness ==
    /\ Len(exclude) > 0
    /\ \E k \in 1..Len(written) :
          /\ written[k].row >= 1
          /\ \E r \in 0..(written[k].row - 1) : EventsOf(IdOfRow(r)) = {}
          /\ \E i \in 1..(written[k].ev - 1) : phenotype[i].id \notin RosterIds

NoDuplicates(s) == \A i \in 1..Len(s) : \A j \in 1..Len(s) : s[i] = s[j] => i = j

\* C8: the step that consumes an event of an id absent from the roster changes
\* no layer, neither count nor last_id, leaves the loop running on the next
\* event, and the exclusion message of an id is printed at most once.
C8_UnknownIdExcluded ==
    [][(/\ pc = "for"
        /\ ev < Len(phenotype)
        /\ phenotype[ev + 1].id \notin RosterIds)
       => /\ feature_matrix' = feature_matrix
          /\ count' = count
          /\ last_id' = last_id
          /\ pc' = "for"
          /\ ev' = ev + 1
          /\ NoDuplicates(out')
          /\ \E i \in 1..Len(out') : out'[i] = phenotype[ev + 1].id]_vars

\* two events of the same unknown id were consumed and the build returned
C8_Witness ==
    /\ Returned
    /\ Len(out) = 1
    /\ \E i \in 1..Len(phenotype) : \E j \in 1..Len(phenotype) :
          /\ i < j
          /\ phenotype[i].id = out[1]
          /\ phenotype[j].id = out[1]
    /\ ev = Len(phenotype)

\* C9: after generate_feature_matrix, for every roster subject with an event,
\* layer 1 at (subject, phenotype) is the maximum age over the pair's events, and
\* the subject's MaxAgeAtVisit for a phenotype the subject has no event of.
C9_Layer1MaxAge ==
    Returned =>
        \A r \in Rows : EventsOf(IdOfRow(r)) # {} =>
            \A c \in Cols :
                LET ages == PairAges(IdOfRow(r), Header[c + 1]) IN
                feature_matrix[1][r][c] =
                    IF ages # {} THEN Max(ages) ELSE genotypes_df[r + 1].MaxAgeAtVisit

\* a subject with events at ages 3 then 1 of one phenotype and none of another
C9_Witness ==
    /\ Returned
    /\ \E r \in Rows : \E c \in Cols : \E d \in Cols :
          /\ PairAges(IdOfRow(r), Header[c + 1]) = {1, 3}
          /\ PairAges(IdOfRow(r), Header[d + 1]) = {}
          /\ feature_matrix[1][r][c] = 3
          /\ feature_matrix[1][r][d] = genotypes_df[r + 1].MaxAgeAtVisit
          /\ \E i \in 1..(Len(phenotype) - 1) :
                /\ phenotype[i].id = IdOfRow(r) /\ phenotype[i].AgeAtICD = 3
                /\ phenotype[i + 1].id = IdOfRow(r) /\ phenotype[i + 1].AgeAtICD = 1

-----------------------------------------------------------------------------
(* run_phewas, calculate_odds_ratio, get_phewas_info *)

RosterSize == 7     \* subjects of the roster passed to run_phewas

\* np.nan, and the statistics of a fit that returned (a term over what it was
\* fitted on: the fit itself is statsmodels')
NaN == [nan |-> TRUE]

PRows == 0..(RosterSize - 1)
PCols == 0..(NumCodes - 1)

\* m[layer][:, j]
ColumnOf(m, layer, j) == [r \in PRows |-> m[layer][r][j]]

\* v.any()
AnyNonzero(v) == \E r \in DOMAIN v : v[r] # 0

\* lines 423-426: control.any(axis=0), disease.any(axis=0) and the columns
\* where exactly one of them holds
GroupAny(m, g, value, j) ==
    \E r \in PRows : g[r + 1].genotype = value /\ m[0][r][j] # 0

\* faulty variant: only 'disease shows the phecode, control does not' is looked for
Separated_DiseaseOnly(m, g) ==
    {j \in PCols : ~GroupAny(m, g, 0, j) /\ GroupAny(m, g, 1, j)}

Separated(m, g) ==
    {j \in PCols : \/ (GroupAny(m, g, 0, j) /\ ~GroupAny(m, g, 1, j))
                   \/ (~GroupAny(m, g, 0, j) /\ GroupAny(m, g, 1, j))}

\* faulty variant: five positive records are taken as enough
EnoughPositives_AtLeast5(v) == Cardinality({r \in DOMAIN v : v[r] > 0}) >= 5

\* line 432: np.where(phen_vector1 > 0)[0].shape[0] > 5
EnoughPositives(v) == Cardinality({r \in DOMAIN v : v[r] > 0}) > 5

\* lines 343-358: the scratch columns written into the roster frame (data is
\* the caller's frame, not a copy)
WithScratch(data, phen_vector1, phen_vector2, phen_vector3) ==
    [data EXCEPT !.y = phen_vector1,
                 !.MaxAgeAtICD = phen_vector2,
                 !.phe = IF AnyNonzero(phen_vector3) THEN phen_vector3 ELSE @]

\* A string of the formula code is the sequence of its pieces: a column name,
\* " ", "~" or "+".

\* lines 347-358: the formula f
Formula(resp, phen_vector3, cov) ==
    LET covs == IF cov # <<>> THEN <<"+">> \o cov ELSE <<>> IN
    IF resp # ""
       THEN IF AnyNonzero(phen_vector3)
               THEN <<resp, "~", " ", "y", " ", "+", " ", "phe", " ", "+", " ", "genotype">>
                    \o covs
               ELSE <<resp, "~", " ", "y", " ", "+", " ", "genotype">> \o covs
       ELSE IF AnyNonzero(phen_vector3)
               THEN <<"genotype", " ", "~", " ", "y", " ", "+", " ", "phe">> \o covs
               ELSE <<"genotype", " ", "~", " ", "y">> \o covs

\* str.split(sep)
RECURSIVE StrSplit(_, _)
StrSplit(str, sep) ==
    IF str = <<>> THEN << <<>> >>
    ELSE IF Len(str) >= Len(sep) /\ SubSeq(str, 1, Len(sep)) = sep
            THEN << <<>> >> \o StrSplit(SubSeq(str, Len(sep) + 1, Len(str)), sep)
    ELSE LET rest == StrSplit(Tail(str), sep) IN
         << <<Head(str)>> \o Head(rest) >> \o Tail(rest)

\* str.replace(" ", "")
RECURSIVE StrNoSpace(_)
StrNoSpace(str) ==
    IF str = <<>> THEN <<>>
    ELSE IF Head(str) = " " THEN StrNoSpace(Tail(str))
    ELSE <<Head(str)>> \o StrNoSpace(Tail(str))

\* str.strip()
RECURSIVE StrStrip(_)
StrStrip(str) ==
    IF str = <<>> THEN <<>>
    ELSE IF Head(str) = " " THEN StrStrip(Tail(str))
    ELSE IF str[Len(str)] = " " THEN StrStrip(SubSeq(str, 1, Len(str) - 1))
    ELSE str

\* line 368: f1 = f.split(' ~ ')
LogitSplit(f) == StrSplit(f, <<" ", "~", " ">>)

\* lines 369-370: the response and the term columns handed to sm.Logit
LogitColumns(f) ==
    LET f1 == LogitSplit(f) IN
    [response |-> StrStrip(f1[1]), terms |-> StrSplit(StrNoSpace(f1[2]), <<"+">>)]

\* lines 361, 379: the response and the terms smf.logit reads from f; spaces
\* do not count in a formula
FormulaColumns(f) ==
    LET sides == StrSplit(StrNoSpace(f), <<"~">>) IN
    [response |-> sides[1], terms |-> StrSplit(sides[2], <<"+">>)]

ModelColumns(lr, f) == IF lr = 1 THEN LogitColumns(f) ELSE FormulaColumns(f)

\* lines 359-370: what the try block comes to: f1[1] raises IndexError when the
\* split gave one part, otherwise it is what the statsmodels fit does
TryOutcome(lr, f, outcome) ==
    IF lr = 1 /\ Len(LogitSplit(f)) < 2 THEN "IndexError" ELSE outcome

\* data[name]
DataColumn(data, name) ==
    CASE name = "genotype" -> [r \in PRows |-> data.rows[r + 1].genotype]
      [] name = "y" -> data.y
      [] name = "MaxAgeAtICD" -> data.MaxAgeAtICD
      [] name = "phe" -> data.phe
      [] name = "resp" -> [r \in PRows |-> data.rows[r + 1].resp]

\* what a fit that returns was fitted on: the mode, the response and the terms
Fitted(data, lr, cols) ==
    [nan |-> FALSE, lr |-> lr, response |-> DataColumn(data, cols.response[1]),
     terms |-> [t \in 1..Len(cols.terms) |-> DataColumn(data, cols.terms[t][1])]]

Sentinel == [logp |-> NaN, pval |-> NaN, beta |-> NaN, conf |-> NaN, stderr |-> NaN]
Stats(x) == [logp |-> x, pval |-> x, beta |-> x, conf |-> x, stderr |-> x]

Outcomes == {"fitted", "ValueError", "Exception"}

\* faulty variant: only ValueError is caught: another exception leaves the function
calculate_odds_ratio_ValueErrorOnly(data, lr, f, outcome) ==
    CASE TryOutcome(lr, f, outcome) = "fitted" ->
            [raised |-> FALSE, od |-> Stats(Fitted(data, lr, ModelColumns(lr, f)))]
      [] TryOutcome(lr, f, outcome) = "ValueError" -> [raised |-> FALSE, od |-> Sentinel]
      [] OTHER -> [raised |-> TRUE, od |-> Sentinel]

\* lines 359-397: the try block and its two handlers; `outcome` is what the
\* statsmodels fit does
calculate_odds_ratio(data, lr, f, outcome) ==
    CASE TryOutcome(lr, f, outcome) = "fitted" ->
            [raised |-> FALSE, od |-> Stats(Fitted(data, lr, ModelColumns(lr, f)))]
      [] TryOutcome(lr, f, outcome) = "ValueError" -> [raised |-> FALSE, od |-> Sentinel]
      [] OTHER -> [raised |-> FALSE, od |-> Sentinel]

\* lines 308, 316: the code of the row of phewas_codes with label p_index
get_phewas_info(p_index) == phewas_codes[p_index + 1].PheCode

\* lines 451-456: the row stored at regressions.loc[index]; the column
\* 'PheWAS Code' is held in the field PheCode
RegressionRow(ix, od) ==
    [label |-> ix, PheCode |-> get_phewas_info(ix), logp |-> od.logp, pval |-> od.pval,
     beta |-> od.beta, conf |-> od.conf, stderr |-> od.stderr]

\* faulty variant: the rows without a p-value are kept
DropNa_KeepAll(rows) == rows

\* line 458: dropna(subset=['p-val'])
RECURSIVE DropNa(_)
DropNa(rows) ==
    IF rows = <<>> THEN <<>>
    ELSE IF Head(rows).pval = NaN THEN DropNa(Tail(rows))
    ELSE <<Head(rows)>> \o DropNa(Tail(rows))

\* the inputs: an id-sorted roster (generate_feature_matrix sorted it in place)
\* whose first k subjects are controls, with one more 0/1 column, resp, that a
\* caller can name as the response, and a matrix whose layer-0 columns are
\* positive on a block of consecutive subjects
PhewasRoster(k) ==
    [r \in 1..RosterSize |-> [id |-> r, genotype |-> IF r <= k THEN 0 ELSE 1,
                              MaxAgeAtVisit |-> VisitAge(r), resp |-> r % 2]]

Blocks == {<<a, b>> : a \in 0..RosterSize, b \in 0..RosterSize}
BlockPairs == {x \in Blocks : (x[1] < x[2]) \/ (x[1] = 0 /\ x[2] = 0)}

\* rows a .. b-1 of the column are positive
BlockMatrix(blocks, phe) ==
    [l \in 0..2 |-> [r \in PRows |-> [c \in PCols |->
        LET pos == blocks[c + 1][1] <= r /\ r < blocks[c + 1][2] IN
        CASE l = 0 -> IF pos THEN 1 ELSE 0
          [] l = 1 -> IF pos THEN 3 ELSE VisitAge(r + 1)
          [] l = 2 -> phe[c + 1]]]]

NoColumn == <<>>

InitPhewas ==
    /\ pc = "run_phewas"
    /\ \E k \in 0..RosterSize :
          genotypes = [rows |-> PhewasRoster(k), y |-> NoColumn,
                       MaxAgeAtICD |-> NoColumn, phe |-> NoColumn]
    /\ \E blocks \in [1..NumCodes -> BlockPairs] : \E phe \in [1..NumCodes -> {0, 1}] :
          fm = BlockMatrix(blocks, phe)
    /\ covariates \in {<<>>, <<"MaxAgeAtICD">>}
    /\ response \in {"", "resp"}
    /\ index = 0
    /\ inds = {}
    /\ regressions = <<>>
    /\ calls = <<>>
    /\ table = <<>>
    /\ IdleFM
    /\ IdleThresh
    /\ IdlePipeline

\* lines 414-426: sort the roster, empty result frame, separated columns
RunPhewasStart ==
    /\ pc = "run_phewas"
    /\ genotypes' = [genotypes EXCEPT !.rows = SortById(@)]
    /\ regressions' = <<>>
    /\ inds' = Separated(fm, SortById(genotypes.rows))
    /\ index' = 0
    /\ pc' = "regressions"
    /\ UNCHANGED <<fm, covariates, response, calls, table>>
    /\ UNCHANGED <<fmvars, thvars, plvars>>

\* lines 427-432, 444-456: a column with too few positive records
ColumnSkipped ==
    /\ pc = "regressions"
    /\ index < NumCodes
    /\ ~EnoughPositives(ColumnOf(fm, 0, index))
    /\ regressions' = Append(regressions, RegressionRow(index, Sentinel))
    /\ index' = index + 1
    /\ UNCHANGED <<pc, fm, genotypes, covariates, response, inds, calls, table>>
    /\ UNCHANGED <<fmvars, thvars, plvars>>

\* lines 433-442, 451-456: one call of calculate_odds_ratio in mode lr
ColumnFit(lr) ==
    /\ pc = "regressions"
    /\ index < NumCodes
    /\ EnoughPositives(ColumnOf(fm, 0, index))
    /\ \E outcome \in Outcomes :
          LET phen_vector3 == ColumnOf(fm, 2, index)
              data == WithScratch(genotypes, ColumnOf(fm, 0, index),
                                  ColumnOf(fm, 1, index), phen_vector3)
              f == Formula(response, phen_vector3, covariates)
              res == calculate_odds_ratio(data, lr, f, outcome)
          IN  /\ genotypes' = data
              /\ calls' = Append(calls, [index |-> index, lr |-> lr,
                                         outcome |-> TryOutcome(lr, f, outcome)])
              /\ IF res.raised
                    THEN /\ pc' = "raised"
                         /\ UNCHANGED <<regressions, index>>
                    ELSE /\ regressions' = Append(regressions, RegressionRow(index, res.od))
                         /\ index' = index + 1
                         /\ pc' = pc
    /\ UNCHANGED <<fm, covariates, response, inds, table>>
    /\ UNCHANGED <<fmvars, thvars, plvars>>

\* lines 433-437
ColumnFitRegularized == index \in inds /\ ColumnFit(1)

\* lines 438-442
ColumnFitOrdinary == index \notin inds /\ ColumnFit(0)

\* line 458
RunPhewasReturn ==
    /\ pc = "regressions"
    /\ index = NumCodes
    /\ table' = SortByCode(DropNa(regressions))
    /\ pc' = "phewas_returned"
    /\ UNCHANGED <<fm, genotypes, covariates, response, index, inds, regressions, calls>>
    /\ UNCHANGED <<fmvars, thvars, plvars>>

NextPhewas ==
    \/ RunPhewasStart
    \/ ColumnSkipped
    \/ ColumnFitRegularized
    \/ ColumnFitOrdinary
    \/ RunPhewasReturn

SpecPhewas == InitPhewas /\ [][NextPhewas]_vars

-----------------------------------------------------------------------------
(* What the run_phewas claims speak of, computed from the arguments alone *)

Visited == 0..(index - 1)
Positives(j) == {r \in PRows : fm[0][r][j] > 0}
NonzeroIn(j, value) ==
    {r \in PRows : fm[0][r][j] # 0 /\ genotypes.rows[r + 1].genotype = value}
CallsOf(j) == {k \in 1..Len(calls) : calls[k].index = j}
FitFailed(j) == \E k \in CallsOf(j) : calls[k].outcome # "fitted"
AllUndefined(row) ==
    /\ row.logp = NaN /\ row.pval = NaN /\ row.beta = NaN
    /\ row.conf = NaN /\ row.stderr = NaN
PhewasReturned == pc = "phewas_returned"

\* C3: a visited column with fewer than 6 strictly positive layer-0 values gets
\* no fit and the all-undefined result; any other visited column gets exactly
\* one call of calculate_odds_ratio, with lr = 1 iff the column is in the
\* separated set computed before the loop, also when that call failed.
C3_FitDecision ==
    /\ \A j \in Visited :
          IF Cardinality(Positives(j)) < 6
             THEN /\ CallsOf(j) = {}
                  /\ AllUndefined(regressions[j + 1])
             ELSE /\ Cardinality(CallsOf(j)) = 1
                  /\ \A k \in CallsOf(j) : calls[k].lr = 1 <=> j \in inds
    /\ \A k \in 1..Len(calls) : calls[k].index \in Visited

\* a column of exactly 5 positives was skipped, a column of exactly 6 was fitted
\* once, regularized, and that fit failed
C3_Witness ==
    /\ PhewasReturned
    /\ \E i \in PCols : \E j \in PCols :
          /\ Cardinality(Positives(i)) = 5
          /\ CallsOf(i) = {}
          /\ Cardinality(Positives(j)) = 6
          /\ \E k \in CallsOf(j) : calls[k].lr = 1 /\ calls[k].outcome = "ValueError"

\* C4: once computed, the separated set holds column j iff exactly one of the
\* groups genotype 0 and genotype 1 has a subject with a nonzero layer-0 value
\* in column j.
C4_SeparatedSet ==
    pc # "run_phewas" =>
        \A j \in PCols :
            j \in inds <=> ((NonzeroIn(j, 0) # {}) # (NonzeroIn(j, 1) # {}))

\* one column is nonzero among the exposed only and flagged, the other is
\* nonzero in both groups and not flagged
C4_Witness ==
    /\ pc = "regressions"
    /\ \E i \in PCols : \E j \in PCols :
          /\ NonzeroIn(i, 0) = {} /\ NonzeroIn(i, 1) # {} /\ i \in inds
          /\ NonzeroIn(j, 0) # {} /\ NonzeroIn(j, 1) # {} /\ j \notin inds

\* the statistics a column gets in a run where no fit fails
UnfailedStats(j) ==
    IF Cardinality(Positives(j)) < 6 THEN Sentinel
    ELSE Stats([nan |-> FALSE,
                lr |-> IF (NonzeroIn(j, 0) # {}) # (NonzeroIn(j, 1) # {}) THEN 1 ELSE 0,
                response |-> IF response = ""
                                THEN [r \in PRows |-> genotypes.rows[r + 1].genotype]
                                ELSE [r \in PRows |-> genotypes.rows[r + 1].resp],
                terms |-> <<[r \in PRows |-> fm[0][r][j]]>>
                          \o (IF \E r \in PRows : fm[2][r][j] # 0
                                 THEN <<[r \in PRows |-> fm[2][r][j]]>> ELSE <<>>)
                          \o (IF response = "" THEN <<>>
                                 ELSE <<[r \in PRows |-> genotypes.rows[r + 1].genotype]>>)
                          \o (IF covariates = <<>> THEN <<>>
                                 ELSE <<[r \in PRows |-> fm[1][r][j]]>>)])

StatsOf(row) ==
    [logp |-> row.logp, pval |-> row.pval, beta |-> row.beta, conf |-> row.conf,
     stderr |-> row.stderr]

\* C5: whichever fits raise, run_phewas never stops on an exception: it records
\* one row per column in header order until it returns, the row of a column
\* whose fit raised is all-undefined, and the row of every other column is the
\* one of the run where no fit fails.
C5_FailuresIsolated ==
    /\ pc \in {"run_phewas", "regressions", "phewas_returned"}
    /\ index \in 0..NumCodes
    /\ PhewasReturned => index = NumCodes
    /\ pc # "run_phewas" => Len(regressions) = index
    /\ \A j \in Visited :
          /\ regressions[j + 1].label = j
          /\ IF FitFailed(j) THEN AllUndefined(regressions[j + 1])
             ELSE StatsOf(regressions[j + 1]) = UnfailedStats(j)

\* the fit of column 0 raised an exception that is no ValueError, the fit of
\* column 1 returned, and run_phewas returned
C5_Witness ==
    /\ PhewasReturned
    /\ \E k \in CallsOf(0) : calls[k].outcome = "Exception"
    /\ \E k \in CallsOf(1) : calls[k].outcome = "fitted"
    /\ regressions[2].pval # NaN

\* C10: the returned table holds exactly the phenotypes recorded with a defined
\* p-value, each once, in ascending order of phenotype code.
C10_TableDefinedSorted ==
    PhewasReturned =>
        /\ {table[k].PheCode : k \in 1..Len(table)}
              = {regressions[k].PheCode : k \in {i \in 1..Len(regressions) :
                                                   regressions[i].pval # NaN}}
        /\ \A k \in 1..Len(table) : \E i \in 1..Len(regressions) : table[k] = regressions[i]
        /\ \A k \in 1..Len(table) : table[k].pval # NaN
        /\ \A k \in 1..(Len(table) - 1) : LexLess(table[k].PheCode, table[k + 1].PheCode)
        /\ \A j \in PCols : (CallsOf(j) = {} \/ FitFailed(j)) =>
              \A k \in 1..Len(table) : table[k].label # j

\* one phenotype was fitted and is the only row of the table, the other was
\* skipped or failed and is not in it
C10_Witness ==
    /\ PhewasReturned
    /\ Len(regressions) = 2
    /\ Len(table) = 1
    /\ \E j \in PCols : FitFailed(j)

\* both phenotypes were fitted and the table holds both, in code order
C10_WitnessBoth ==
    /\ PhewasReturned
    /\ Len(table) = 2

C17_SplitGivesResponseAndTerms ==
    \A k \in 1..Len(calls) :
        calls[k].lr = 1 =>
            LET f == Formula(response, ColumnOf(fm, 2, calls[k].index), covariates) IN
            /\ Len(LogitSplit(f)) = 2
            /\ calls[k].outcome # "IndexError"
            /\ LogitColumns(f) = FormulaColumns(f)

-----------------------------------------------------------------------------
(* The threshold calculators.  A p-value is held in thousandths, as          *)
(* [nan |-> FALSE, v |-> n], or is NaN; alpha is held in thousandths too,     *)
(* so sn[i] <= alpha*(i+1)/len(sn) is v * len(sn) <= alpha * (i+1).           *)

MaxPValues == 4     \* entries of the p-value vector

PValue(n) == [nan |-> FALSE, v |-> n]
PValues == {NaN, PValue(1), PValue(20), PValue(40), PValue(500)}

\* np.isfinite
IsFinite(x) == ~x.nan

\* insert a p-value into an ascending sequence; np.sort puts NaN last
RECURSIVE InsertPValue(_, _)
InsertPValue(x, s) ==
    IF s = <<>> THEN <<x>>
    ELSE IF IsFinite(x) /\ (~IsFinite(Head(s)) \/ x.v < Head(s).v) THEN <<x>> \o s
    ELSE <<Head(s)>> \o InsertPValue(x, Tail(s))

\* np.sort(p_values)
RECURSIVE NpSort(_)
NpSort(v) ==
    IF v = <<>> THEN <<>>
    ELSE InsertPValue(v[Len(v)], NpSort(SubSeq(v, 1, Len(v) - 1)))

\* sn[np.isfinite(sn)]
RECURSIVE FiniteOnly(_)
FiniteOnly(s) ==
    IF s = <<>> THEN <<>>
    ELSE IF IsFinite(Head(s)) THEN <<Head(s)>> \o FiniteOnly(Tail(s))
    ELSE FiniteOnly(Tail(s))

\* lines 494-499: the value of i (0-based) when the for loop is left, by break
\* at the first p-value over its critical value or by exhaustion at the last i
RECURSIVE FdrLoop(_, _, _)
FdrLoop(sn, a, i) ==
    IF sn[i + 1].v * Len(sn) <= a * (i + 1) /\ i + 1 < Len(sn)
       THEN FdrLoop(sn, a, i + 1)
       ELSE i

Returns(x) == [raised |-> FALSE, value |-> x]
Raises(e) == [raised |-> TRUE, value |-> e]

\* lines 491-500; with no finite p-value the loop body never runs and the
\* return reads an unassigned i
get_fdr_thresh(pv, a) ==
    LET sn == FiniteOnly(NpSort(pv)) IN
    IF Len(sn) = 0 THEN Raises("UnboundLocalError")
    ELSE Returns(sn[FdrLoop(sn, a, 0) + 1])

\* faulty variant: every entry is counted, NaN too
SumFinite_CountAll(v) == Len(v)

\* sum(np.isfinite(p_values)): the builtin sum over the boolean vector
RECURSIVE SumFinite(_)
SumFinite(v) ==
    IF v = <<>> THEN 0
    ELSE (IF IsFinite(Head(v)) THEN 1 ELSE 0) + SumFinite(Tail(v))

\* the quotient a / n of the float division, kept exact, and the float inf
Ratio(a, n) == [num |-> a, den |-> n]
Inf == [inf |-> TRUE]

\* line 476: alpha / sum(np.isfinite(p_values)).  The sum of an empty vector
\* is the int 0 and the division raises; the sum of a vector of NaN alone is a
\* numpy zero and the division gives inf
get_bon_thresh(pv, a) ==
    LET n == SumFinite(pv) IN
    IF pv = <<>> THEN Raises("ZeroDivisionError")
    ELSE IF n = 0 THEN Returns(Inf)
    ELSE Returns(Ratio(a, n))

\* faulty variant: the critical value is alpha*(i+1)/len(sn), without the 8.1
BhyLoop_NoFactor(sn, a, i) == FdrLoop(sn, a, i)

\* lines 519-524: as FdrLoop, with p_crit = alpha*(i+1) / (8.1*len(sn)), so
\* sn[i] <= p_crit is 81 * v * len(sn) <= 10 * alpha * (i+1)
RECURSIVE BhyLoop(_, _, _)
BhyLoop(sn, a, i) ==
    IF sn[i + 1].v * 81 * Len(sn) <= a * 10 * (i + 1) /\ i + 1 < Len(sn)
       THEN BhyLoop(sn, a, i + 1)
       ELSE i

\* lines 516-525
get_bhy_thresh(pv, a) ==
    LET sn == FiniteOnly(NpSort(pv)) IN
    IF Len(sn) = 0 THEN Raises("UnboundLocalError")
    ELSE Returns(sn[BhyLoop(sn, a, 0) + 1])

InitThresh ==
    /\ pc = "thresholds"
    /\ p_values \in SeqsUpTo(PValues, MaxPValues)
    /\ alpha \in {50, 100}
    /\ thresh = <<>>
    /\ IdleFM
    /\ IdlePhewas
    /\ IdlePipeline

GetFdrThresh ==
    /\ pc = "thresholds"
    /\ thresh' = get_fdr_thresh(p_values, alpha)
    /\ pc' = "fdr_returned"
    /\ UNCHANGED <<p_values, alpha>>
    /\ UNCHANGED <<fmvars, phvars, plvars>>

GetBonThresh ==
    /\ pc = "thresholds"
    /\ thresh' = get_bon_thresh(p_values, alpha)
    /\ pc' = "bon_returned"
    /\ UNCHANGED <<p_values, alpha>>
    /\ UNCHANGED <<fmvars, phvars, plvars>>

GetBhyThresh ==
    /\ pc = "thresholds"
    /\ thresh' = get_bhy_thresh(p_values, alpha)
    /\ pc' = "bhy_returned"
    /\ UNCHANGED <<p_values, alpha>>
    /\ UNCHANGED <<fmvars, phvars, plvars>>

NextThresh ==
    \/ GetBonThresh
    \/ GetFdrThresh
    \/ GetBhyThresh

SpecThresh == InitThresh /\ [][NextThresh]_vars

\* the defined p-values in ascending order, and the ranks on or under the line
SortedDefined == FiniteOnly(NpSort(p_values))
UnderLine(i) == SortedDefined[i].v * Len(SortedDefined) <= alpha * i
LastUnderLine ==
    Max({k \in 1..Len(SortedDefined) : \A i \in 1..k : UnderLine(i)})

\* C2: when the smallest defined p-value is on or under its critical value,
\* get_fdr_thresh returns s[k], k the largest rank with s[i] <= alpha*i/m for
\* every rank i in 1..k: the last p-value under the line, not the first over it.
C2_FdrLastUnderLine ==
    (/\ pc = "fdr_returned"
     /\ Len(SortedDefined) > 0
     /\ UnderLine(1))
    => thresh = Returns(SortedDefined[LastUnderLine])

ThreshReturned == pc \in {"bon_returned", "fdr_returned", "bhy_returned"}

\* C11: whatever the p-value vector, the empty one and the one of NaN alone
\* included, get_bon_thresh, get_fdr_thresh and get_bhy_thresh each return a
\* finite threshold and do not raise.
C11_ThresholdsTotal ==
    ThreshReturned => (~thresh.raised /\ thresh.value # Inf)

\* the positions of the defined entries, and the vector with two entries exchanged
DefinedAt == {i \in DOMAIN p_values : ~p_values[i].nan}
Exchanged(v, i, j) == [v EXCEPT ![i] = v[j], ![j] = v[i]]

\* C13: over a vector with a defined entry get_bon_thresh returns alpha divided
\* by the number of defined entries, NaN entries not counted, and exchanging
\* any two entries of the vector leaves the threshold as it is.
C13_BonOverDefined ==
    (pc = "bon_returned" /\ DefinedAt # {}) =>
        /\ thresh = Returns(Ratio(alpha, Cardinality(DefinedAt)))
        /\ \A i \in DOMAIN p_values : \A j \in DOMAIN p_values :
              get_bon_thresh(Exchanged(p_values, i, j), alpha) = thresh

\* 0.05 over [0.001, 0.02, NaN, 0.5] gave 0.05/3
C13_Witness ==
    /\ pc = "bon_returned"
    /\ p_values = <<PValue(1), PValue(20), NaN, PValue(500)>>
    /\ alpha = 50
    /\ thresh = Returns(Ratio(50, 3))

\* a vector and a threshold in units of 1/81000: alpha/8.1 is then 10*alpha
InUnits81(x) == IF x.nan THEN x ELSE PValue(81 * x.v)
VectorInUnits81 == [i \in DOMAIN p_values |-> InUnits81(p_values[i])]

\* C14: over a vector with a defined entry get_bhy_thresh(p, alpha) returns
\* what get_fdr_thresh(p, alpha/8.1) returns.
C14_BhyIsFdrScaled ==
    (pc = "bhy_returned" /\ DefinedAt # {}) =>
        /\ ~thresh.raised
        /\ Returns(InUnits81(thresh.value)) = get_fdr_thresh(VectorInUnits81, 10 * alpha)

\* the 8.1 matters: 0.02 is over 0.05/(8.1*2) and returned, where
\* get_fdr_thresh at alpha itself goes on to 0.5
C14_Witness ==
    /\ pc = "bhy_returned"
    /\ p_values = <<PValue(500), NaN, PValue(20)>>
    /\ alpha = 50
    /\ thresh = Returns(PValue(20))
    /\ get_fdr_thresh(p_values, alpha) = Returns(PValue(500))

-----------------------------------------------------------------------------
(* A run from the event file to the result table: the file is read          *)
(* (get_icd_codes or get_cpt_codes), generate_feature_matrix returns the     *)
(* matrix and its header, run_phewas is called on them.  The matrix is drawn *)
(* at the start, as for run_phewas alone.                                    *)

\* lines 231-243, 287: list(empty_phewas_df.index)
HeaderOf(ct) ==
    LET df == SortByCode(IF ct = "CPT" THEN prowas_codes ELSE phewas_codes) IN
    [j \in 1..Len(df) |-> df[j].PheCode]

\* line 113: all((icd_types == 9) | (icd_types == 10))
IcdTypesKnown(types) == \A t \in types : t = 9 \/ t = 10

\* a roster whose last subject may carry a genotype that is neither 0 nor 1
PipelineRoster(k, g) ==
    [r \in 1..RosterSize |->
        IF r = RosterSize THEN [PhewasRoster(k)[r] EXCEPT !.genotype = g]
        ELSE PhewasRoster(k)[r]]

PipelineBlocks == {<<0, 0>>, <<0, RosterSize - 1>>, <<1, RosterSize>>, <<0, RosterSize>>}

InitPipeline ==
    /\ pc = "get_codes"
    /\ \/ code_type = "ICD" /\ icd_types \in {{9}, {10}, {9, 10}, {9, 11}}
       \/ code_type = "CPT" /\ icd_types = {}
    /\ header = <<>>
    /\ \E k \in 0..(RosterSize - 1) : \E g \in {1, 2} :
          genotypes = [rows |-> PipelineRoster(k, g), y |-> NoColumn,
                       MaxAgeAtICD |-> NoColumn, phe |-> NoColumn]
    /\ \E blocks \in [1..NumCodes -> PipelineBlocks] :
          fm = BlockMatrix(blocks, [c \in 1..NumCodes |-> 0])
    /\ covariates = <<>>
    /\ response = ""
    /\ index = 0
    /\ inds = {}
    /\ regressions = <<>>
    /\ calls = <<>>
    /\ table = <<>>
    /\ IdleFM
    /\ IdleThresh

\* lines 112-119: an ICD_TYPE that is neither 9 nor 10: print and sys.exit()
GetIcdCodesExit ==
    /\ pc = "get_codes"
    /\ code_type = "ICD"
    /\ ~IcdTypesKnown(icd_types)
    /\ pc' = "exited"
    /\ UNCHANGED <<fmvars, phvars, thvars, plvars>>

\* lines 121-149 (get_icd_codes) and 166-180 (get_cpt_codes, which has no
\* check): the events are returned
GetCodesReturn ==
    /\ pc = "get_codes"
    /\ code_type = "ICD" => IcdTypesKnown(icd_types)
    /\ pc' = "generate_feature_matrix"
    /\ UNCHANGED <<fmvars, phvars, thvars, plvars>>

\* lines 231-243, 287: the header generate_feature_matrix returns
GfmHeader ==
    /\ pc = "generate_feature_matrix"
    /\ header' = HeaderOf(code_type)
    /\ pc' = "run_phewas"
    /\ UNCHANGED <<code_type, icd_types>>
    /\ UNCHANGED <<fmvars, phvars, thvars>>

NextPipeline ==
    \/ GetIcdCodesExit
    \/ GetCodesReturn
    \/ GfmHeader
    \/ RunPhewasStart
    \/ ColumnSkipped
    \/ ColumnFitRegularized
    \/ ColumnFitOrdinary
    \/ RunPhewasReturn

SpecPipeline == InitPipeline /\ [][NextPipeline]_vars

UnknownGenotype == \E r \in 1..RosterSize : genotypes.rows[r].genotype \notin {0, 1}
UnknownIcdType == ~IcdTypesKnown(icd_types)

\* C12: when the roster holds a genotype that is neither 0 nor 1, or the event
\* file an ICD_TYPE that is neither 9 nor 10, the run is aborted: no regression
\* row is recorded and no table is returned.
C12_BadInputAborts ==
    (UnknownGenotype \/ UnknownIcdType) =>
        (regressions = <<>> /\ pc # "phewas_returned")

\* C16: for the header generate_feature_matrix built, with code type ICD or
\* CPT, the result row recorded for column j carries the code header[j].
C16_RowCarriesHeaderCode ==
    \A j \in 1..Len(regressions) : regressions[j].PheCode = header[j]

====
